---- MODULE Spec2Model ----
(***************************************************************************)
(* Model of src/backend/port/nto_shmem.c: the QNX Neutrino shared memory   *)
(* layer of the server.  Processes that share one data directory derive    *)
(* the same shared memory object name and run PGSharedMemoryIsInUse,       *)
(* PGSharedMemoryCreate, PGSharedMemoryDetach and the exit callback        *)
(* PGSharedMemoryDelete against one POSIX shared memory namespace.  Every  *)
(* system call is one atomic step of the calling process.                  *)
(***************************************************************************)
EXTENDS Integers, Sequences, FiniteSets, TLC

(* ------------------------------ bounds --------------------------------- *)

\* calls of PGSharedMemoryCreate in one run, over all processes
MaxCreates == 2

\* requested sizes range from the aligned header size (too small by the
\* function's precondition) up to the aligned header size plus MaxExtra
MaxExtra == 2

\* longest data directory path fed to GenerateSHMName
MaxPathLen == 5

(* ------------------------- program constants --------------------------- *)

\* void *UsedShmemSegAddr = NULL
NULL == 0

\* the sentinel PGSharedMemoryCreate stores in the header's magic field
PGShmemMagic == 679834894

\* sizeof(PGShmemHeader) and MAXIMUM_ALIGNOF, scaled down
SizeofPGShmemHeader == 3
MaximumAlignof == 2

\* the process identifiers (getpid()) of the server instances
Procs == {1, 2}

\* MAXALIGN(LEN): LEN rounded up to a multiple of MAXIMUM_ALIGNOF
MAXALIGN(len) == ((len + MaximumAlignof - 1) \div MaximumAlignof) * MaximumAlignof

HdrSize == MAXALIGN(SizeofPGShmemHeader)

\* the sizes a caller may pass to PGSharedMemoryCreate
Sizes == HdrSize .. (HdrSize + MaxExtra)

\* huge_pages settings
HugePages == {"HUGE_PAGES_OFF", "HUGE_PAGES_ON"}

\* errno values of a failing system call, by the class the code tests for
Errnos == {"ENOMEM", "EACCES"}

\* addresses mmap can return to one process
Addrs == 1 .. MaxCreates

\* identities of shared memory objects; enough for the name, every open
\* descriptor and every mapping to refer to a different one
ObjIds == 1 .. (1 + Cardinality(Procs) + MaxCreates)

VARIABLES
    assertBuild,   \* the build defines USE_ASSERT_CHECKING
    creates,       \* calls of PGSharedMemoryCreate made so far
    shmName,       \* namespace: the object bound to the derived name, or NULL
    obj,           \* obj[o]: size and header of shared memory object o
    proc,          \* proc[p]: the state of process p, see ProcInit
    DataDir, dd, chars, name, namePc   \* GenerateSHMName's loop

nameVars == <<DataDir, dd, chars, name, namePc>>
vars == <<assertBuild, creates, shmName, obj, proc, DataDir, dd, chars, name, namePc>>

(* ----------------------- shared memory objects ------------------------- *)

\* no mapping at an address
NoMap == [obj |-> NULL]

\* the zero-filled first bytes of a fresh object
ZeroHdr == [magic |-> 0, creatorPID |-> 0, totalsize |-> 0, freeoffset |-> 0,
            dsm_control |-> 0]

\* an object as shm_open(O_CREAT) makes it: of size 0; maker is the process
\* whose PGSharedMemoryCreate created the object, NULL for any other object
NewObj == [size |-> 0, hdr |-> ZeroHdr, maker |-> NULL]

\* an object identity that nothing refers to
FreeObj == NewObj

Referenced(o, nm, pr) ==
    \/ nm = o
    \/ \E p \in Procs : pr[p].fd = o
    \/ \E p \in Procs : \E a \in Addrs : pr[p].maps[a].obj = o

\* the kernel frees an object once no name, descriptor or mapping refers to it
Collect(objs, nm, pr) ==
    [o \in ObjIds |-> IF Referenced(o, nm, pr) THEN objs[o] ELSE FreeObj]

FreshObj == CHOOSE o \in ObjIds : ~Referenced(o, shmName, proc)

FreshAddr(l) == CHOOSE a \in Addrs : l.maps[a] = NoMap

NoReport == [elevel |-> "none", code |-> "none"]

(* --------------------------- initial state ----------------------------- *)

\* a process before its first call, configured with huge_pages = hp: nothing
\* open, nothing mapped, UsedShmemSegAddr = NULL and UsedShmemSegSize = 0.
\* pc: where the process stands; fd, size: the descriptor and the argument
\* of the running PGSharedMemoryCreate; maps[a]: the mapping at address a;
\* hooks: on_shmem_exit callbacks registered and not yet called; inUse: what
\* PGSharedMemoryIsInUse just returned; report: the ereport being raised;
\* created: PGSharedMemoryCreate has returned in this process; errno: the
\* errno of the system call of PGSharedMemoryCreate that has just failed;
\* made: the shm_open of the running PGSharedMemoryCreate created the object
ProcInit(hp) ==
    [pc |-> "idle", huge_pages |-> hp, fd |-> NULL, size |-> 0,
     maps |-> [a \in Addrs |-> NoMap],
     UsedShmemSegAddr |-> NULL, UsedShmemSegSize |-> 0,
     hooks |-> 0, inUse |-> "none", report |-> NoReport, created |-> FALSE,
     errno |-> "none", made |-> FALSE]

NameIdle ==
    /\ DataDir = <<>>
    /\ dd = 0
    /\ chars = 0
    /\ name = <<>>
    /\ namePc = "off"

Init ==
    /\ assertBuild \in BOOLEAN
    /\ creates = 0
    /\ shmName = NULL
    /\ obj = [o \in ObjIds |-> FreeObj]
    /\ proc \in [Procs -> {ProcInit(hp) : hp \in HugePages}]
    /\ NameIdle

(* ------------------------- ereport and exit ---------------------------- *)

\* errcode_for_dynamic_shared_memory(), as a function of errno
errcode_for_dynamic_shared_memory(errno) ==
    IF errno = "EFBIG" \/ errno = "ENOMEM"
    THEN "ERRCODE_OUT_OF_MEMORY"
    ELSE "errcode_for_file_access"

\* the process image is gone: descriptors closed, mappings dropped by the
\* kernel; callbacks that never ran stay counted in hooks
Dead(l, how) ==
    [l EXCEPT !.pc = how, !.fd = NULL, !.size = 0,
              !.maps = [a \in Addrs |-> NoMap],
              !.UsedShmemSegAddr = NULL, !.UsedShmemSegSize = 0,
              !.inUse = "none", !.report = NoReport, !.errno = "none",
              !.made = FALSE]

\* ereport(elevel, ...) with elevel ERROR or FATAL: the report is made and
\* control never returns to the caller; the process goes on to proc_exit
ereport(l, elevel, code) ==
    [l EXCEPT !.report = [elevel |-> elevel, code |-> code],
              !.pc = "proc_exit", !.inUse = "none"]

\* one step of process p: its new state l, the namespace nm, the objects objs
Set(p, l, nm, objs) ==
    LET pr == [proc EXCEPT ![p] = l] IN
    /\ proc' = pr
    /\ shmName' = nm
    /\ obj' = Collect(objs, nm, pr)
    /\ UNCHANGED <<assertBuild, DataDir, dd, chars, name, namePc>>

\* outcomes of a system call that can fail for lack of resources or access
Outcomes == {"ok"} \cup Errnos

(* ---------------------- PGSharedMemoryIsInUse -------------------------- *)

\* a probe whose shm_open lacks O_EXCL and so opens an object that exists
IsInUse_NoExcl(p) ==
    LET l == proc[p] IN
    /\ l.pc = "idle"
    /\ UNCHANGED creates
    /\ \E outcome \in Outcomes :
         IF outcome # "ok"
         THEN Set(p, [l EXCEPT !.inUse = "true"], shmName, obj)
         ELSE IF shmName = NULL
         THEN Set(p, [l EXCEPT !.fd = FreshObj, !.pc = "IsInUse_unlink",
                               !.inUse = "none"],
                  FreshObj, [obj EXCEPT ![FreshObj] = NewObj])
         ELSE Set(p, [l EXCEPT !.fd = shmName, !.pc = "IsInUse_unlink",
                               !.inUse = "none"],
                  shmName, obj)

\* fd = shm_open(name, O_RDWR | O_CREAT | O_EXCL, 0600); if (fd == -1) return true;
IsInUse_shm_open(p) ==
    LET l == proc[p] IN
    /\ l.pc = "idle"
    /\ UNCHANGED creates
    /\ \E outcome \in IF shmName # NULL THEN {"EEXIST"} ELSE Outcomes :
         IF outcome # "ok"
         THEN Set(p, [l EXCEPT !.inUse = "true"], shmName, obj)
         ELSE Set(p, [l EXCEPT !.fd = FreshObj, !.pc = "IsInUse_unlink",
                               !.inUse = "none"],
                  FreshObj, [obj EXCEPT ![FreshObj] = NewObj])

\* close(fd); shm_unlink(name); return false;
IsInUse_shm_unlink(p) ==
    LET l == proc[p] IN
    /\ l.pc = "IsInUse_unlink"
    /\ UNCHANGED creates
    /\ Set(p, [l EXCEPT !.fd = NULL, !.pc = "idle", !.inUse = "false"],
           NULL, obj)

(* ----------------------- PGSharedMemoryCreate -------------------------- *)

\* a build that forgets the huge_pages test
HugePagesIgnored(huge_pages) == FALSE

\* #if defined(EXEC_BACKEND) || !defined(MAP_HUGETLB)
\*   if (huge_pages == HUGE_PAGES_ON) ereport(ERROR, ...)
\* QNX Neutrino's <sys/mman.h> has no MAP_HUGETLB, so the test is compiled in
HugePagesRejected(huge_pages) ==
    huge_pages = "HUGE_PAGES_ON"

\* Assert(size > MAXALIGN(sizeof(PGShmemHeader))) traps only in a build
\* with assertion checking
AssertTraps(sz) ==
    assertBuild /\ ~(sz > MAXALIGN(SizeofPGShmemHeader))

\* size != st.st_size
NeedResize(sz, st) == sz # st

\* the header fields written through the mapping
NewHeader(p, sz) ==
    [magic |-> PGShmemMagic, creatorPID |-> p, totalsize |-> sz,
     freeoffset |-> MAXALIGN(SizeofPGShmemHeader), dsm_control |-> 0]

\* from the entry of the function to fd = shm_open(name, O_RDWR | O_CREAT, 0600)
Create_shm_open(p) ==
    LET l == proc[p] IN
    /\ l.pc = "idle"
    /\ creates < MaxCreates
    /\ creates' = creates + 1
    /\ \E sz \in Sizes :
         IF HugePagesRejected(l.huge_pages)
         THEN Set(p, ereport(l, "ERROR", "ERRCODE_FEATURE_NOT_SUPPORTED"),
                  shmName, obj)
         ELSE IF AssertTraps(sz)
         THEN Set(p, [l EXCEPT !.report = [elevel |-> "TRAP", code |-> "none"],
                               !.pc = "abort", !.inUse = "none"],
                  shmName, obj)
         ELSE LET l1 == [l EXCEPT !.UsedShmemSegAddr = NULL, !.inUse = "none"] IN
              \E outcome \in Outcomes :
                IF outcome # "ok"
                THEN Set(p, ereport([l1 EXCEPT !.errno = outcome], "FATAL", "none"),
                         shmName, obj)
                ELSE IF shmName = NULL
                THEN Set(p, [l1 EXCEPT !.fd = FreshObj, !.size = sz,
                                       !.made = TRUE, !.pc = "Create_fstat"],
                         FreshObj,
                         [obj EXCEPT ![FreshObj] = [NewObj EXCEPT !.maker = p]])
                ELSE Set(p, [l1 EXCEPT !.fd = shmName, !.size = sz,
                                       !.pc = "Create_fstat"],
                         shmName, obj)

\* if (fstat(fd, &st) != 0) ...; then the test of size != st.st_size
Create_fstat(p) ==
    LET l == proc[p] IN
    /\ l.pc = "Create_fstat"
    /\ UNCHANGED creates
    /\ \E outcome \in Outcomes :
         IF outcome # "ok"
         THEN Set(p, ereport([l EXCEPT !.fd = NULL, !.errno = outcome], "FATAL",
                             errcode_for_dynamic_shared_memory(outcome)),
                  shmName, obj)
         ELSE LET st_size == obj[l.fd].size IN
              Set(p, [l EXCEPT !.pc = IF NeedResize(l.size, st_size)
                                      THEN "Create_ftruncate" ELSE "Create_mmap"],
                  shmName, obj)

\* -1 == ftruncate(fd, size)
Create_ftruncate(p) ==
    LET l == proc[p] IN
    /\ l.pc = "Create_ftruncate"
    /\ UNCHANGED creates
    /\ \E outcome \in Outcomes :
         IF outcome # "ok"
         THEN Set(p, ereport([l EXCEPT !.fd = NULL, !.errno = outcome], "FATAL", "none"),
                  shmName, obj)
         ELSE Set(p, [l EXCEPT !.pc = "Create_mmap"],
                  shmName, [obj EXCEPT ![l.fd].size = l.size])

\* address = mmap(NULL, size, ...) and everything after it: the header
\* written through the mapping, the handle, close(fd), on_shmem_exit
Create_mmap(p) ==
    LET l == proc[p] IN
    /\ l.pc = "Create_mmap"
    /\ UNCHANGED creates
    /\ \E outcome \in Outcomes :
         IF outcome # "ok"
         THEN Set(p, ereport([l EXCEPT !.fd = NULL, !.errno = outcome], "FATAL",
                             errcode_for_dynamic_shared_memory(outcome)),
                  shmName, obj)
         ELSE LET address == FreshAddr(l) IN
              Set(p, [l EXCEPT !.maps[address] = [obj |-> l.fd],
                               !.UsedShmemSegAddr = address,
                               !.UsedShmemSegSize = l.size,
                               !.fd = NULL,
                               !.hooks = @ + 1,
                               !.created = TRUE,
                               !.made = FALSE,
                               !.size = 0,
                               !.pc = "idle"],
                  shmName,
                  [obj EXCEPT ![l.fd].hdr = NewHeader(p, l.size)])

(* ----------------------- PGSharedMemoryDetach -------------------------- *)

\* munmap(UsedShmemSegAddr, UsedShmemSegSize) succeeds on a mapping of the process
MunmapOk(l) == l.maps[l.UsedShmemSegAddr] # NoMap

\* a detach that unmaps and leaves UsedShmemSegAddr as it was
Detach_KeepsHandle(l) ==
    IF l.UsedShmemSegAddr # NULL /\ ~MunmapOk(l)
    THEN ereport(l, "FATAL", errcode_for_dynamic_shared_memory("EINVAL"))
    ELSE [l EXCEPT !.maps = IF l.UsedShmemSegAddr # NULL
                            THEN [@ EXCEPT ![l.UsedShmemSegAddr] = NoMap]
                            ELSE @]

\* the body of PGSharedMemoryDetach on process state l
PGSharedMemoryDetach(l) ==
    IF l.UsedShmemSegAddr # NULL /\ ~MunmapOk(l)
    THEN ereport(l, "FATAL", errcode_for_dynamic_shared_memory("EINVAL"))
    ELSE [l EXCEPT !.maps = IF l.UsedShmemSegAddr # NULL
                            THEN [@ EXCEPT ![l.UsedShmemSegAddr] = NoMap]
                            ELSE @,
                   !.UsedShmemSegAddr = NULL,
                   !.UsedShmemSegSize = NULL]

\* proc_exit: shmem_exit takes the registered callbacks off its list one by
\* one and calls them, then the process leaves.  The callback is
\* PGSharedMemoryDelete, which begins with PGSharedMemoryDetach() and stands
\* before its shm_unlink afterwards
proc_exit(l) ==
    IF l.hooks > 0
    THEN PGSharedMemoryDetach([l EXCEPT !.hooks = @ - 1, !.pc = "Delete_unlink",
                                        !.size = 0, !.inUse = "none",
                                        !.report = NoReport,
                                        !.errno = "none", !.made = FALSE])
    ELSE Dead(l, "exited")

\* a detach that also removes the name, as PGSharedMemoryDelete does
Detach_Unlinks(p) ==
    LET l == proc[p] IN
    /\ l.pc = "idle"
    /\ UNCHANGED creates
    /\ Set(p, [PGSharedMemoryDetach(l) EXCEPT !.inUse = "none"], NULL, obj)

\* a call of PGSharedMemoryDetach by an idle process
Detach(p) ==
    LET l == proc[p] IN
    /\ l.pc = "idle"
    /\ UNCHANGED creates
    /\ Set(p, [PGSharedMemoryDetach(l) EXCEPT !.inUse = "none"], shmName, obj)

(* ------------- process exit and PGSharedMemoryDelete ------------------- *)

\* normal termination of an idle process, proc_exit(0), or the proc_exit(1)
\* that ends an ereport
Exit(p) ==
    LET l == proc[p] IN
    /\ l.pc \in {"idle", "proc_exit"}
    /\ UNCHANGED creates
    /\ Set(p, proc_exit(l), shmName, obj)

\* abort() after a failed Assert: the process dies on SIGABRT, no callback runs
Abort(p) ==
    LET l == proc[p] IN
    /\ l.pc = "abort"
    /\ UNCHANGED creates
    /\ Set(p, Dead(l, "crashed"), shmName, obj)

\* a callback that detaches and forgets the shm_unlink
Delete_NoUnlink(p) ==
    LET l == proc[p] IN
    /\ l.pc = "Delete_unlink"
    /\ UNCHANGED creates
    /\ Set(p, proc_exit(l), shmName, obj)

\* if (-1 == shm_unlink(name)) ereport(FATAL, ...); free(name);
\* then shmem_exit goes on with the callbacks that are left
Delete_shm_unlink(p) ==
    LET l == proc[p] IN
    /\ l.pc = "Delete_unlink"
    /\ UNCHANGED creates
    /\ IF shmName = NULL
       THEN Set(p, ereport(l, "FATAL", errcode_for_dynamic_shared_memory("ENOENT")),
                shmName, obj)
       ELSE Set(p, proc_exit(l), NULL, obj)

\* abnormal termination (a signal, a power cut of the process): no callback runs
Crash(p) ==
    LET l == proc[p] IN
    /\ l.pc \notin {"exited", "crashed"}
    /\ UNCHANGED creates
    /\ Set(p, Dead(l, "crashed"), shmName, obj)

(* --------------------------- specification ----------------------------- *)

Step(p) ==
    \/ IsInUse_shm_open(p)
    \/ IsInUse_shm_unlink(p)
    \/ Create_shm_open(p)
    \/ Create_fstat(p)
    \/ Create_ftruncate(p)
    \/ Create_mmap(p)
    \/ Detach(p)
    \/ Exit(p)
    \/ Abort(p)
    \/ Delete_shm_unlink(p)
    \/ Crash(p)

Next == \E p \in Procs : Step(p)

\* the processes of every server instance on the data directory, their
\* system calls interleaved in any order
Spec == Init /\ [][Next]_vars

\* process q is inside a call or inside its exit sequence
Busy(q) == proc[q].pc \notin {"idle", "exited", "crashed"}

\* no process other than p is inside a call
Alone(p) == \A q \in Procs \ {p} : ~Busy(q)

NextSerial ==
    \E p \in Procs :
      \/ Alone(p) /\ IsInUse_shm_open(p)
      \/ Alone(p) /\ IsInUse_shm_unlink(p)
      \/ Alone(p) /\ Create_shm_open(p)
      \/ Alone(p) /\ Create_fstat(p)
      \/ Alone(p) /\ Create_ftruncate(p)
      \/ Alone(p) /\ Create_mmap(p)
      \/ Alone(p) /\ Detach(p)
      \/ Alone(p) /\ Exit(p)
      \/ Alone(p) /\ Abort(p)
      \/ Alone(p) /\ Delete_shm_unlink(p)
      \/ Alone(p) /\ Crash(p)

\* the same processes, one call at a time: no process starts or continues
\* a call or its exit sequence while another one is inside one
SpecSerial == Init /\ [][NextSerial]_vars

NextStartup ==
    \E p \in Procs :
      \/ IsInUse_shm_open(p)
      \/ IsInUse_shm_unlink(p)
      \/ proc[p].inUse = "false" /\ Create_shm_open(p)
      \/ Create_fstat(p)
      \/ Create_ftruncate(p)
      \/ Create_mmap(p)
      \/ Detach(p)
      \/ Exit(p)
      \/ Abort(p)
      \/ Delete_shm_unlink(p)
      \/ Crash(p)

\* server startups that follow the protocol: a process calls
\* PGSharedMemoryCreate only right after its PGSharedMemoryIsInUse returned
\* false; system calls interleave as in Spec
SpecStartup == Init /\ [][NextStartup]_vars

(* -------------------------- GenerateSHMName --------------------------- *)

\* strcpy(name, "/PostgreSQL.")
Prefix == <<"/", "P", "o", "s", "t", "g", "r", "e", "S", "Q", "L", ".">>

\* the characters of the data directory paths tried
Alphabet == {"/", "a", "b"}

SeqsOf(n) == UNION {[1 .. k -> Alphabet] : k \in 1 .. n}

ExamplePath ==
    <<"/", "v", "a", "r", "/", "l", "i", "b", "/", "p", "o", "s", "t", "g",
      "r", "e", "s", "q", "l", "/", "d", "a", "t", "a">>

\* char name[64] in PGSharedMemoryIsInUse, PGSharedMemoryCreate and
\* PGSharedMemoryDetach: the bytes the callers give GenerateSHMName
NameBufSize == 64

RECURSIVE Nested(_)
\* a data directory n levels deep: /ab/ab/.../ab
Nested(n) == IF n = 0 THEN <<>> ELSE <<"/", "a", "b">> \o Nested(n - 1)

\* a path whose derived name, with its terminating zero, takes two bytes
\* more than the buffer has
DeepPath == Nested((NameBufSize - Len(Prefix)) \div 2)

\* the values of DataDir tried: every short path, one real one and a deep one
Paths == SeqsOf(MaxPathLen) \cup {ExamplePath, DeepPath}

\* an off-by-one that lets a third character through
TakeChar_Three(n) == n <= 2

\* chars++ < 2
TakeChar(n) == n < 2

\* entry of GenerateSHMName: int chars = 0; strcpy(name, "/PostgreSQL.");
\* dd = DataDir
InitName ==
    /\ assertBuild = FALSE
    /\ creates = 0
    /\ shmName = NULL
    /\ obj = [o \in ObjIds |-> FreeObj]
    /\ proc = [p \in Procs |-> ProcInit("HUGE_PAGES_OFF")]
    /\ DataDir \in Paths
    /\ dd = 1
    /\ chars = 0
    /\ name = Prefix
    /\ namePc = "loop"

\* strncat(name, dd, 1) has room for the character and the terminating zero
Fits(nm) == Len(nm) + 2 <= NameBufSize

\* one iteration of for (dd = DataDir; *dd; ++dd).  strncat does not know the
\* size of name: a character that does not fit is written past the end of the
\* caller's array, which is undefined behaviour; either the bytes land in the
\* memory behind the array and the loop goes on, or the process is stopped
GenerateSHMName_char ==
    /\ namePc = "loop"
    /\ dd <= Len(DataDir)
    /\ IF DataDir[dd] = "/"
       THEN /\ chars' = 0
            /\ name' = name
            /\ namePc' = namePc
       ELSE /\ chars' = chars + 1
            /\ IF ~TakeChar(chars)
               THEN name' = name /\ namePc' = namePc
               ELSE IF Fits(name)
               THEN name' = Append(name, DataDir[dd]) /\ namePc' = namePc
               ELSE \/ name' = Append(name, DataDir[dd]) /\ namePc' = namePc
                    \/ name' = name /\ namePc' = "smashed"
    /\ dd' = dd + 1
    /\ UNCHANGED <<assertBuild, creates, shmName, obj, proc, DataDir>>

\* *dd is the terminating zero: the loop and the function end
GenerateSHMName_return ==
    /\ namePc = "loop"
    /\ dd > Len(DataDir)
    /\ namePc' = "done"
    /\ UNCHANGED <<assertBuild, creates, shmName, obj, proc, DataDir, dd, chars, name>>

NextName == GenerateSHMName_char \/ GenerateSHMName_return

\* GenerateSHMName run on every data directory path of Paths
SpecName == InitName /\ [][NextName]_vars

(* ------------------------------ claims --------------------------------- *)

\* process p holds a segment: PGSharedMemoryCreate has returned in it and
\* its handle records a mapping
Holds(p) ==
    /\ proc[p].pc = "idle"
    /\ proc[p].created
    /\ proc[p].UsedShmemSegAddr # NULL

\* a segment has been created and its PGSharedMemoryDelete has not run
SegmentLive == \E p \in Procs : proc[p].hooks > 0

\* C1: when every process calls PGSharedMemoryCreate only right after its
\* PGSharedMemoryIsInUse returned false, no state has two processes that
\* both hold a created and mapped segment under the name.
C1_NoTwoInstances ==
    \A p, q \in Procs : p # q => ~(Holds(p) /\ Holds(q))

\* C2: PGSharedMemoryIsInUse returns true whenever it runs while a segment
\* created by PGSharedMemoryCreate has not been destroyed, and the name is
\* free (the probe returns false) right after PGSharedMemoryDelete has run.
C2_ProbeTracksSegment ==
    /\ [][\A q \in Procs :
            (IsInUse_shm_open(q) /\ SegmentLive) => proc'[q].inUse = "true"]_vars
    /\ [][\A p \in Procs : Delete_shm_unlink(p) => shmName' = NULL]_vars

\* process p takes a step that ends it
Ends(p) ==
    /\ proc[p].pc \notin {"exited", "crashed"}
    /\ proc'[p].pc \in {"exited", "crashed"}

\* C3 as stated: whenever a process that owns a segment ends, abnormal ends
\* included, its handle is empty and the name is gone from the namespace.
C3_EveryExitRemoves ==
    [][\A p \in Procs :
         (Ends(p) /\ (proc[p].hooks > 0 \/ proc[p].pc = "Delete_unlink"))
         => (shmName' = NULL /\ proc'[p].UsedShmemSegAddr = NULL)]_vars

\* C3 amended: when a process that owns a segment terminates normally
\* (proc_exit, also the one a FATAL error ends in), every registered callback
\* runs: entering the callback empties the handle, the callback's shm_unlink
\* step leaves the name free, and the process is gone only when no callback
\* is left and nothing is mapped any more.
C3_NormalExitRemoves ==
    /\ [][\A p \in Procs :
            /\ (Exit(p) /\ proc[p].hooks > 0)
               => (proc'[p].pc = "Delete_unlink" /\ proc'[p].UsedShmemSegAddr = NULL)
            /\ Delete_shm_unlink(p)
               => (shmName' = NULL /\ proc'[p].UsedShmemSegAddr = NULL)]_vars
    /\ [](\A p \in Procs :
            proc[p].pc = "exited"
            => /\ proc[p].hooks = 0
               /\ proc[p].UsedShmemSegAddr = NULL
               /\ \A a \in Addrs : proc[p].maps[a] = NoMap)

\* a process that created a segment has exited normally and the name is free
C3_Witness ==
    \E p \in Procs :
        /\ proc[p].pc = "exited"
        /\ proc[p].created
        /\ shmName = NULL
        /\ creates = 1

\* the name is bound to an object whose creator crashed with its callback
\* still registered
Orphan ==
    /\ shmName # NULL
    /\ \E p \in Procs : proc[p].pc = "crashed" /\ proc[p].hooks > 0

\* C4: a crash invokes no exit callback and leaves the namespace as it is,
\* callbacks are invoked only by proc_exit, and a PGSharedMemoryIsInUse that
\* runs while the crashed creator's object is in the namespace returns true.
C4_CrashLeavesOrphan ==
    [][\A p \in Procs :
         /\ (Crash(p) \/ Abort(p))
            => (proc'[p].hooks = proc[p].hooks /\ shmName' = shmName)
         /\ proc'[p].hooks < proc[p].hooks
            => (Exit(p) \/ Delete_shm_unlink(p))
         /\ (IsInUse_shm_open(p) /\ Orphan) => proc'[p].inUse = "true"]_vars

\* the creator crashed, its object is still named, and another process that
\* never created anything has been told that the segment is in use
C4_Witness ==
    \E p, q \in Procs :
        /\ p # q
        /\ proc[p].pc = "crashed"
        /\ proc[p].hooks > 0
        /\ shmName # NULL
        /\ obj[shmName].hdr.creatorPID = p
        /\ proc[q].inUse = "true"
        /\ ~proc[q].created
        /\ creates = 1

\* C5: when PGSharedMemoryCreate(size) succeeds the object's size is size,
\* whether the object is new or existed with another size; ftruncate is
\* called exactly when the size fstat reports differs from size.
C5_SizeIsRequested ==
    [][\A p \in Procs :
         LET o == proc[p].fd
             S == proc[p].size
         IN
         /\ (Create_mmap(p) /\ proc'[p].pc = "idle")
            => (obj'[o].size = S /\ proc'[p].UsedShmemSegSize = S)
         /\ (Create_fstat(p) /\ proc'[p].pc = "Create_ftruncate")
            => obj[o].size # S
         /\ (Create_fstat(p) /\ proc'[p].pc = "Create_mmap")
            => obj[o].size = S
         /\ (Create_ftruncate(p) /\ proc'[p].pc = "Create_mmap")
            => obj'[o].size = S]_vars

\* C6: when PGSharedMemoryCreate(size) succeeds the header has the magic
\* number, the caller's pid, totalsize = size, dsm_control = 0 and freeoffset
\* equal to the aligned header size, which is aligned, above zero and below
\* size.
C6_HeaderAfterCreate ==
    [][\A p \in Procs :
         (Create_mmap(p) /\ proc'[p].pc = "idle")
         => LET h == obj'[proc[p].fd].hdr
                S == proc[p].size
            IN
            /\ h.magic = PGShmemMagic
            /\ h.creatorPID = p
            /\ h.totalsize = S
            /\ h.dsm_control = 0
            /\ h.freeoffset = MAXALIGN(SizeofPGShmemHeader)
            /\ h.freeoffset % MaximumAlignof = 0
            /\ h.freeoffset > 0
            /\ h.freeoffset < S]_vars

\* C7: a PGSharedMemoryCreate whose size does not exceed the aligned header
\* size fails before it touches the namespace: no such call gets as far as
\* holding a descriptor of the object.
C7_SmallSizeFailsFirst ==
    [][\A p \in Procs :
         Create_shm_open(p)
         => (proc'[p].fd # NULL => proc'[p].size > MAXALIGN(SizeofPGShmemHeader))]_vars

\* C8: with huge_pages on, PGSharedMemoryCreate reports
\* ERRCODE_FEATURE_NOT_SUPPORTED and leaves the namespace, the objects, the
\* handle, the mappings and the registered callbacks as they were.
C8_HugePagesRejected ==
    [][\A p \in Procs :
         (Create_shm_open(p) /\ proc[p].huge_pages = "HUGE_PAGES_ON")
         => /\ proc'[p].report = [elevel |-> "ERROR",
                                  code |-> "ERRCODE_FEATURE_NOT_SUPPORTED"]
            /\ proc'[p].pc = "proc_exit"
            /\ shmName' = shmName
            /\ obj' = obj
            /\ proc'[p].fd = proc[p].fd
            /\ proc'[p].maps = proc[p].maps
            /\ proc'[p].hooks = proc[p].hooks
            /\ proc'[p].UsedShmemSegAddr = proc[p].UsedShmemSegAddr
            /\ proc'[p].UsedShmemSegSize = proc[p].UsedShmemSegSize]_vars

\* a process has been refused huge pages while another one's segment is in
\* the namespace
C8_Witness ==
    \E p, q \in Procs :
        /\ proc[p].report.code = "ERRCODE_FEATURE_NOT_SUPPORTED"
        /\ proc[p].pc = "proc_exit"
        /\ Holds(q)
        /\ shmName # NULL

\* C9: after a PGSharedMemoryDetach that returned, the handle is empty and a
\* second call changes nothing; a call that finds the handle empty unmaps
\* nothing and does not fail.
C9_DetachIdempotent ==
    [][\A p \in Procs :
         /\ (Detach(p) /\ proc'[p].pc = "idle")
            => /\ proc'[p].UsedShmemSegAddr = NULL
               /\ PGSharedMemoryDetach(proc'[p]) = proc'[p]
         /\ (Detach(p) /\ proc[p].UsedShmemSegAddr = NULL)
            => /\ proc'[p].maps = proc[p].maps
               /\ proc'[p].pc = "idle"
               /\ proc'[p].report = NoReport]_vars

\* a process that created and mapped a segment has detached from it
C9_Witness ==
    \E p \in Procs :
        /\ proc[p].pc = "idle"
        /\ proc[p].created
        /\ proc[p].hooks > 0
        /\ proc[p].UsedShmemSegAddr = NULL
        /\ \A a \in Addrs : proc[p].maps[a] = NoMap
        /\ shmName # NULL

\* position i of path lies within the first two characters of its segment
FirstTwo(path, i) ==
    /\ path[i] # "/"
    /\ \A j \in 1 .. i : (i - j >= 2) => \E k \in j .. i : path[k] = "/"

RECURSIVE Pick(_, _)
\* the characters of path from position i on that FirstTwo keeps
Pick(path, i) ==
    IF i > Len(path) THEN <<>>
    ELSE (IF FirstTwo(path, i) THEN <<path[i]>> ELSE <<>>) \o Pick(path, i + 1)

\* C10: the name GenerateSHMName returns is "/PostgreSQL." followed by, in
\* order, the first two characters at most of every segment of the path, and
\* nothing else.
C10_NameIsFirstTwoOfEach ==
    namePc = "done" => name = Prefix \o Pick(DataDir, 1)

\* /var/lib/postgresql/data has been turned into /PostgreSQL.valipoda
C10_Witness ==
    /\ namePc = "done"
    /\ DataDir = ExamplePath
    /\ name = Prefix \o <<"v", "a", "l", "i", "p", "o", "d", "a">>

\* C11: whatever the data directory path, the name GenerateSHMName has built
\* so far, with its terminating zero, fits the 64 bytes of the caller's name
\* buffer, and GenerateSHMName never writes past that buffer.
C11_NameFitsBuffer ==
    /\ Len(name) + 1 <= NameBufSize
    /\ namePc # "smashed"

\* process p is running: it has neither exited nor crashed
Running(p) == proc[p].pc \notin {"exited", "crashed"}

\* C12: in every state of a running process, a handle with an address
\* records a mapping the process has, with the size it was mapped with, and
\* a process whose handle is empty has no mapping outstanding.
C12_HandleInvariant ==
    /\ [](\A p \in Procs :
            Running(p)
            => /\ proc[p].UsedShmemSegAddr # NULL => MunmapOk(proc[p])
               /\ proc[p].UsedShmemSegAddr = NULL
                  => \A a \in Addrs : proc[p].maps[a] = NoMap)
    /\ [][\A p \in Procs :
            (Create_mmap(p) /\ proc'[p].UsedShmemSegAddr # NULL)
            => /\ proc'[p].maps[proc'[p].UsedShmemSegAddr] = [obj |-> proc[p].fd]
               /\ proc'[p].UsedShmemSegSize = proc[p].size]_vars

\* the state of the segment as process state l records it: Unmapped before
\* the first successful PGSharedMemoryCreate, Mapped while the handle has an
\* address, Detached while the handle is empty and a PGSharedMemoryDelete is
\* still to run or running, Destroyed when every PGSharedMemoryDelete has run
SegState(l) ==
    IF l.UsedShmemSegAddr # NULL THEN "Mapped"
    ELSE IF ~l.created THEN "Unmapped"
    ELSE IF l.hooks > 0 \/ l.pc = "Delete_unlink" THEN "Detached"
    ELSE "Destroyed"

\* the transitions of the segment state machine
SegTransitions ==
    {<<"Unmapped", "Mapped">>, <<"Mapped", "Detached">>,
     <<"Detached", "Destroyed">>}

\* C13: in a process that does not crash the segment only goes from Unmapped
\* to Mapped to Detached to Destroyed; PGSharedMemoryDelete removes the
\* name only after the handle has been emptied, the removal succeeds, and no
\* second PGSharedMemoryDelete follows it in the process.
C13_SegmentStateMachine ==
    [][\A p \in Procs :
         /\ (proc'[p].pc # "crashed" /\ SegState(proc'[p]) # SegState(proc[p]))
            => <<SegState(proc[p]), SegState(proc'[p])>> \in SegTransitions
         /\ Delete_shm_unlink(p)
            => /\ proc[p].UsedShmemSegAddr = NULL
               /\ shmName # NULL
               /\ shmName' = NULL
               /\ proc'[p].pc # "Delete_unlink"]_vars

\* C14: PGSharedMemoryDetach changes nothing but the caller's own mapping and
\* handle: the name stays bound to the same object with the same size and
\* header, and every other process keeps its mappings and its handle.
C14_DetachFrame ==
    [][\A p \in Procs :
         Detach(p)
         => /\ shmName' = shmName
            /\ shmName # NULL => obj'[shmName] = obj[shmName]
            /\ \A q \in Procs \ {p} : proc'[q] = proc[q]
            /\ proc'[p].hooks = proc[p].hooks
            /\ proc'[p].fd = proc[p].fd
            /\ \A a \in Addrs :
                  a # proc[p].UsedShmemSegAddr => proc'[p].maps[a] = proc[p].maps[a]]_vars

\* p has detached from the object it had mapped, q still holds its mapping of
\* the same named object, and a PGSharedMemoryIsInUse of p has returned true
C14_Witness ==
    \E p, q \in Procs :
        /\ p # q
        /\ proc[p].pc = "idle"
        /\ proc[p].created
        /\ proc[p].UsedShmemSegAddr = NULL
        /\ \A a \in Addrs : proc[p].maps[a] = NoMap
        /\ proc[p].inUse = "true"
        /\ Holds(q)
        /\ shmName # NULL
        /\ proc[q].maps[proc[q].UsedShmemSegAddr].obj = shmName

\* C15: a PGSharedMemoryCreate whose shm_open, ftruncate or mmap fails raises
\* FATAL with ERRCODE_OUT_OF_MEMORY when errno is EFBIG or ENOMEM and with the
\* file access error code of errno otherwise.
C15_ErrorClassification ==
    [][\A p \in Procs :
         ((Create_shm_open(p) \/ Create_ftruncate(p) \/ Create_mmap(p))
          /\ proc'[p].errno # "none")
         => proc'[p].report =
              [elevel |-> "FATAL",
               code |-> IF proc'[p].errno \in {"EFBIG", "ENOMEM"}
                        THEN "ERRCODE_OUT_OF_MEMORY"
                        ELSE "errcode_for_file_access"]]_vars

\* C16: PGSharedMemoryIsInUse returns true exactly when the name is bound to
\* an object at the moment of its shm_open, and returning true raises no
\* error; with the name free it goes on to return false.
C16_InUseOnlyWhenExists ==
    [][\A p \in Procs :
         IsInUse_shm_open(p)
         => /\ proc'[p].inUse = "true" <=> shmName # NULL
            /\ shmName = NULL => proc'[p].pc = "IsInUse_unlink"
            /\ proc'[p].report = NoReport
            /\ proc'[p].pc \in {"idle", "IsInUse_unlink"}]_vars

\* process q has a mapping of the object o
HasMapped(q, o) == \E a \in Addrs : proc[q].maps[a].obj = o

\* C17: the shm_unlink of PGSharedMemoryIsInUse removes the name of the object
\* that this call created and of no other, and never the name of an object
\* that another process has opened and mapped.
C17_ProbeDeletesOwnObject ==
    [][\A p \in Procs :
         IsInUse_shm_unlink(p)
         => /\ shmName \in {NULL, proc[p].fd}
            /\ \A q \in Procs \ {p} : shmName # NULL => ~HasMapped(q, shmName)]_vars

\* a step of PGSharedMemoryCreate in process p
CreateStep(p) ==
    Create_shm_open(p) \/ Create_fstat(p) \/ Create_ftruncate(p) \/ Create_mmap(p)

\* C18: when a system call of PGSharedMemoryCreate fails, the call raises
\* FATAL and goes no further, the handle is empty, no callback has been
\* registered by the call, its descriptor is closed and an object that the
\* call itself created is no longer bound to the name.
C18_FailedCreateLeavesNothing ==
    [][\A p \in Procs :
         (CreateStep(p) /\ proc'[p].errno # "none")
         => /\ proc'[p].report.elevel = "FATAL"
            /\ proc'[p].pc = "proc_exit"
            /\ proc'[p].UsedShmemSegAddr = NULL
            /\ proc'[p].hooks = proc[p].hooks
            /\ proc'[p].fd = NULL
            /\ proc[p].made => shmName' # proc[p].fd]_vars

\* C19: the header of an object is written once: a PGSharedMemoryCreate
\* writes it only into a header nobody has written, and a header that has
\* been written never changes while the object exists.
C19_HeaderWrittenOnce ==
    [][/\ \A p \in Procs :
            (Create_mmap(p) /\ proc'[p].pc = "idle")
            => obj[proc[p].fd].hdr = ZeroHdr
       /\ \A o \in ObjIds :
            (obj[o].hdr # ZeroHdr /\ Referenced(o, shmName', proc'))
            => obj'[o].hdr = obj[o].hdr]_vars

\* C20: the shm_unlink of a process's PGSharedMemoryDelete finds the name
\* bound, so that it succeeds, and never removes the name of an object that
\* another process created and still holds mapped.
C20_OnlyCreatorDestroys ==
    [][\A p \in Procs :
         Delete_shm_unlink(p)
         => /\ shmName # NULL
            /\ proc'[p].report.elevel # "FATAL"
            /\ \A q \in Procs \ {p} :
                  ~(obj[shmName].maker = q /\ Holds(q) /\ HasMapped(q, shmName))]_vars

====
